---- MODULE Spec2Model ----
(***************************************************************************)
(* A model of MosabMohamed.py: the pitch codec, the chord catalog, the     *)
(* melody quantizer (average_notes), the fitness evaluator and the         *)
(* generational loop of main (selection, crossover, mutation,              *)
(* get_best_individual, write_output).                                     *)
(*                                                                         *)
(* Five specifications share the variables:                                *)
(*   SpecCodec  note_to_midi_number followed by midi_number_to_note        *)
(*   SpecQuant  average_notes, one loop iteration per step                 *)
(*   Spec       main's evolution from create_population to write_output    *)
(*   SpecScale  get_possible_chords, then chord_exists on one chord        *)
(*   SpecSim    similarity_to_original_melody on one slot                  *)
(* Python lists are sequences indexed from 1; an index i of the source is  *)
(* i + 1 here.  Floats are modelled exactly: a slot average is the         *)
(* rational <<numerator, denominator>>.                                    *)
(***************************************************************************)
EXTENDS Integers, Sequences, FiniteSets, TLC

VARIABLES
    \* pitch codec
    cpc, note, octave, midi_number, decoded, codec_raised,
    \* melody quantizer (average_notes)
    qpc, original_melody, qi, time, averages, ret, quant_raised,
    \* main
    gpc, size_of_population, average, possible_chords, population,
    tournament_bracket, selected_population, parents, new_children,
    generation, best_individual, generated_track, main_raised,
    \* get_possible_chords and the terms of the fitness, one chord at a time
    kpc, key_word, key_type, root_note, key_scale, kchord, chord_score,
    sim_target, sim_diffs, sim_score

codecVars == <<cpc, note, octave, midi_number, decoded, codec_raised>>
quantVars == <<qpc, original_melody, qi, time, averages, ret, quant_raised>>
mainVars  == <<gpc, size_of_population, average, possible_chords, population,
               tournament_bracket, selected_population, parents, new_children,
               generation, best_individual, generated_track, main_raised>>
scoreVars == <<kpc, key_word, key_type, root_note, key_scale, kchord,
               chord_score, sim_target, sim_diffs, sim_score>>
vars == <<codecVars, quantVars, mainVars, scoreVars>>

(***************************************************************************)
(* Bounds of the model.                                                    *)
(***************************************************************************)
MaxOctave == 10          \* octaves 0..MaxOctave are encoded
MaxNotes == 3            \* entries of a melody
MaxDurHalves == 6        \* a duration is 1..MaxDurHalves half quarters
MaxPop == 4              \* size_of_population ranges over 1..MaxPop
MaxLen == 2              \* len(average) ranges over 1..MaxLen
MaxMutations == 1        \* genes mutation replaces during one crossover call
MaxTone == 11            \* the tones of a scored chord range over -1..MaxTone
MaxDen == 2              \* the denominators of a scored target value

(***************************************************************************)
(* Global variables of the program.                                        *)
(***************************************************************************)
quarter_time == 384

notes == <<"C", "C#", "D", "D#", "E", "F", "F#", "G", "G#", "A", "A#", "B">>

\* Python's int(a / b) for b > 0: the quotient truncated toward zero.
IntDiv(a, b) == IF a >= 0 THEN a \div b ELSE -((-a) \div b)

\* Python's list indexing, seq[i] with i counted from 0 and a negative i
\* counted from the end (-len(seq) <= i < len(seq)).
PyIndex(seq, i) == IF i >= 0 THEN seq[i + 1] ELSE seq[Len(seq) + i + 1]

Abs(x) == IF x < 0 THEN -x ELSE x
Max(a, b) == IF a > b THEN a ELSE b
Min(a, b) == IF a < b THEN a ELSE b

(***************************************************************************)
(* Pitch codec.                                                            *)
(***************************************************************************)
\* note_number of note_to_midi_number: the first index whose name matches,
\* and the initial 0 when the loop finds none.
NoteNumber(n) ==
    IF \E i \in 1..Len(notes) : notes[i] = n
    THEN (CHOOSE i \in 1..Len(notes) :
              notes[i] = n /\ \A k \in 1..(i - 1) : notes[k] # n) - 1
    ELSE 0

note_to_midi_number(n, o) == (o * 12) + NoteNumber(n)

\* midi_number_to_note with the octave rounded to the nearest whole number,
\* round(midi_number / 12), instead of truncated.
midi_number_to_note_rounded(m) ==
    LET oct == (m + 6) \div 12
        note_number == m - (oct * 12)
    IN  <<PyIndex(notes, note_number), oct>>

midi_number_to_note(m) ==
    LET oct == IntDiv(m, 12)
        note_number == m - (oct * 12)
    IN  <<PyIndex(notes, note_number), oct>>

(***************************************************************************)
(* Chord catalog.                                                          *)
(***************************************************************************)
major_triad(root_midi) == <<root_midi, root_midi + 4, root_midi + 7>>
minor_triad(root_midi) == <<root_midi, root_midi + 3, root_midi + 7>>
first_inverted_major(root_midi) == <<root_midi + 12, root_midi + 4, root_midi + 7>>
first_inverted_minor(root_midi) == <<root_midi + 12, root_midi + 3, root_midi + 7>>
second_inverted_major(root_midi) == <<root_midi + 12, root_midi + 16, root_midi + 7>>
second_inverted_minor(root_midi) == <<root_midi + 12, root_midi + 15, root_midi + 7>>
diminished(root_midi) == <<root_midi, root_midi + 3, root_midi + 6>>
sus2(root_midi) == <<root_midi, root_midi + 2, root_midi + 7>>
sus4(root_midi) == <<root_midi, root_midi + 5, root_midi + 7>>
rest == <<-1, -1, -1>>

(***************************************************************************)
(* SpecCodec: a name and an octave are encoded, the pitch is decoded.      *)
(* The names are the chromatic list and the two other spellings the key    *)
(* tables of get_possible_chords hold.  Neither function has a raise       *)
(* statement; codec_raised is the exception that left the call, "" when    *)
(* the call returned.                                                      *)
(***************************************************************************)
CodecNames == {notes[i] : i \in 1..Len(notes)} \cup {"E#", "B#"}

CodecIdle ==
    /\ cpc = "idle" /\ note = "C" /\ octave = 0 /\ midi_number = 0
    /\ decoded = <<"C", 0>> /\ codec_raised = ""

QuantIdle ==
    /\ qpc = "idle" /\ original_melody = <<>> /\ qi = 0 /\ time = 0
    /\ averages = <<>> /\ ret = <<>> /\ quant_raised = ""

MainIdle ==
    /\ gpc = "idle" /\ size_of_population = 0 /\ average = <<>>
    /\ possible_chords = <<>> /\ population = <<>>
    /\ tournament_bracket = <<>> /\ selected_population = <<>>
    /\ parents = <<>> /\ new_children = <<>> /\ generation = 0
    /\ best_individual = <<>> /\ generated_track = <<>> /\ main_raised = ""

ScoreIdle ==
    /\ kpc = "idle" /\ key_word = "C" /\ key_type = "major"
    /\ root_note = "" /\ key_scale = <<>> /\ kchord = <<0, 0, 0>>
    /\ chord_score = 0 /\ sim_target = <<0, 1>>
    /\ sim_diffs = <<0, 0, 0>> /\ sim_score = 0

InitCodec ==
    /\ cpc = "start"
    /\ note \in CodecNames
    /\ octave \in 0..MaxOctave
    /\ midi_number = 0
    /\ decoded = <<"C", 0>>
    /\ codec_raised = ""
    /\ QuantIdle /\ MainIdle /\ ScoreIdle

Encode ==
    /\ cpc = "start"
    /\ midi_number' = note_to_midi_number(note, octave)
    /\ cpc' = "encoded"
    /\ UNCHANGED <<note, octave, decoded, codec_raised, quantVars, mainVars,
                   scoreVars>>

Decode ==
    /\ cpc = "encoded"
    /\ decoded' = midi_number_to_note(midi_number)
    /\ cpc' = "decoded"
    /\ UNCHANGED <<note, octave, midi_number, codec_raised, quantVars,
                   mainVars, scoreVars>>

NextCodec == Encode \/ Decode

SpecCodec == InitCodec /\ [][NextCodec]_vars

(***************************************************************************)
(* Melody quantizer.                                                       *)
(***************************************************************************)
RECURSIVE SumTime(_)
\* total_time of get_averages
SumTime(notes_and_times) ==
    IF notes_and_times = <<>> THEN 0
    ELSE notes_and_times[1][2] + SumTime(Tail(notes_and_times))

RECURSIVE SumNoteTime(_)
SumNoteTime(notes_and_times) ==
    IF notes_and_times = <<>> THEN 0
    ELSE notes_and_times[1][1] * notes_and_times[1][2]
         + SumNoteTime(Tail(notes_and_times))

\* get_averages raises ZeroDivisionError at its first division when
\* total_time is 0 and the list is not empty.
GetAveragesRaises(notes_and_times) ==
    notes_and_times # <<>> /\ SumTime(notes_and_times) = 0

\* The sum of note * (time / total_time), as the exact rational
\* <<numerator, denominator>>; 0.0 for the empty list.
get_averages(notes_and_times) ==
    IF notes_and_times = <<>> THEN <<0, 1>>
    ELSE <<SumNoteTime(notes_and_times), SumTime(notes_and_times)>>

RECURSIVE WholeQuartersEarlyExit(_, _, _)
\* WholeQuarters leaving its loop at time <= quarter_time.
WholeQuartersEarlyExit(r, pitch, t) ==
    LET r1 == Append(r, <<pitch, 1>>)
        t1 == t - quarter_time
    IN  IF t1 <= quarter_time THEN <<r1, t1>>
        ELSE WholeQuartersEarlyExit(r1, pitch, t1)

RECURSIVE WholeQuarters(_, _, _)
\* The while True loop of average_notes: one value per pass, then the
\* test that leaves the loop.  The result is <<ret, time>>.
WholeQuarters(r, pitch, t) ==
    LET r1 == Append(r, <<pitch, 1>>)
        t1 == t - quarter_time
    IN  IF t1 < quarter_time THEN <<r1, t1>> ELSE WholeQuarters(r1, pitch, t1)

\* One iteration of the for loop of average_notes on entry = <<note, time>>.
\* The result holds the three locals after the iteration, and raised = TRUE
\* when get_averages raised (the locals are then those at the raise).
AverageNotesBody(entry, time0, averages0, ret0) ==
    LET t1 == time0 + entry[2]
    IN  IF entry[1] = 0
        THEN [time |-> t1, averages |-> averages0, ret |-> ret0, raised |-> FALSE]
        ELSE
        LET a1 == IF t1 < quarter_time THEN Append(averages0, entry) ELSE averages0
            hit == t1 = quarter_time
            a2 == IF hit THEN Append(a1, entry) ELSE a1
        IN  IF hit /\ GetAveragesRaises(a2)
            THEN [time |-> t1, averages |-> a2, ret |-> ret0, raised |-> TRUE]
            ELSE
            LET r2 == IF hit THEN Append(ret0, get_averages(a2)) ELSE ret0
                a3 == IF hit THEN <<>> ELSE a2
                t2 == IF hit THEN 0 ELSE t1
            IN  IF t2 < quarter_time
                THEN [time |-> t2, averages |-> a3, ret |-> r2, raised |-> FALSE]
                ELSE
                LET a4 == Append(a3, <<entry[1], entry[2] - (t2 - quarter_time)>>)
                IN  IF GetAveragesRaises(a4)
                    THEN [time |-> t2, averages |-> a4, ret |-> r2, raised |-> TRUE]
                    ELSE
                    LET r3 == Append(r2, get_averages(a4))
                        t3 == entry[2] - a4[Len(a4)][2]
                        w  == IF t3 >= quarter_time
                              THEN WholeQuarters(r3, entry[1], t3)
                              ELSE <<r3, t3>>
                        a5 == IF w[2] # 0 THEN << <<entry[1], w[2]>> >> ELSE <<>>
                    IN  [time |-> w[2], averages |-> a5, ret |-> w[1],
                         raised |-> FALSE]

\* ret[avg] = ret[avg] - 24, on the rational
Minus24(v) == <<v[1] - 24 * v[2], v[2]>>

MelodyPitches == {60, 64}
Durations == {h * (quarter_time \div 2) : h \in 1..MaxDurHalves}
MelodyEntries == ({0} \cup MelodyPitches) \X Durations
Melodies == UNION {[1..n -> MelodyEntries] : n \in 1..MaxNotes}

InitQuant ==
    /\ qpc = "loop"
    /\ original_melody \in Melodies
    /\ qi = 0
    /\ time = 0
    /\ averages = <<>>
    /\ ret = <<>>
    /\ quant_raised = ""
    /\ CodecIdle /\ MainIdle /\ ScoreIdle

AverageNotesIteration ==
    /\ qpc = "loop"
    /\ qi < Len(original_melody)
    /\ LET b == AverageNotesBody(original_melody[qi + 1], time, averages, ret)
       IN  /\ time' = b.time
           /\ averages' = b.averages
           /\ ret' = b.ret
           /\ IF b.raised
              THEN /\ qpc' = "crashed"
                   /\ quant_raised' = "ZeroDivisionError"
                   /\ UNCHANGED qi
              ELSE /\ qi' = qi + 1
                   /\ UNCHANGED <<qpc, quant_raised>>
    /\ UNCHANGED <<original_melody, codecVars, mainVars, scoreVars>>

AverageNotesReturn ==
    /\ qpc = "loop"
    /\ qi = Len(original_melody)
    /\ ret' = [k \in 1..Len(ret) |-> Minus24(ret[k])]
    /\ qpc' = "done"
    /\ UNCHANGED <<original_melody, qi, time, averages, quant_raised,
                   codecVars, mainVars, scoreVars>>

NextQuant == AverageNotesIteration \/ AverageNotesReturn

SpecQuant == InitQuant /\ [][NextQuant]_vars

(***************************************************************************)
(* Fitness evaluator.  The target values are whole numbers in Spec, so     *)
(* the float arithmetic of the source is exact integer arithmetic here.    *)
(***************************************************************************)
\* diff2 * 10 + diff1 * 5 + diff3 * 5 of one slot
SlotSimilarity(chord, t) ==
    LET diff1 == Max(10 - Abs(t - chord[1]), 0)
        diff2 == Max(10 - Abs(t - chord[2]), 0)
        diff3 == Max(10 - Abs(t - chord[3]), 0)
    IN  diff2 * 10 + diff1 * 5 + diff3 * 5

RECURSIVE SimilaritySum(_, _, _)
SimilaritySum(individual, target, n) ==
    IF n = 0 THEN 0
    ELSE SimilaritySum(individual, target, n - 1)
         + SlotSimilarity(individual[n], target[n])

similarity_to_original_melody(individual, target) ==
    SimilaritySum(individual, target, Min(Len(individual), Len(target)))

\* The inner loop of chord_exists: some j in range(len(possible_chords))
\* has the chord equal to degrees j, j + 2, j + 4 of the scale.
ChordPossible(chord, scale) ==
    \E j \in 0..(Len(scale) - 1) :
        /\ chord[1] % 12 = note_to_midi_number(scale[((j + 0) % 7) + 1], 0)
        /\ chord[2] % 12 = note_to_midi_number(scale[((j + 2) % 7) + 1], 0)
        /\ chord[3] % 12 = note_to_midi_number(scale[((j + 4) % 7) + 1], 0)

RECURSIVE chord_exists(_, _)
chord_exists(individual, scale) ==
    IF individual = <<>> THEN 0
    ELSE (IF ChordPossible(individual[1], scale) THEN 100 ELSE -100)
         + chord_exists(Tail(individual), scale)

\* The score redundant_chords adds at index i (counted from 0).
RedundancyAt(individual, i) ==
    LET triple ==
            IF i >= 2
            THEN IF /\ individual[i - 1][1] = individual[i][1]
                    /\ individual[i - 1][1] = individual[i + 1][1]
                    /\ individual[i][1] = individual[i + 1][1]
                 THEN -100 ELSE 100
            ELSE 0
        pair ==
            IF i >= 1
            THEN IF individual[i][1] = individual[i + 1][1] THEN 100 ELSE -100
            ELSE 0
    IN  triple + pair

RECURSIVE RedundancySum(_, _)
RedundancySum(individual, n) ==
    IF n = 0 THEN 0
    ELSE RedundancySum(individual, n - 1) + RedundancyAt(individual, n - 1)

redundant_chords(individual) == RedundancySum(individual, Len(individual))

individual_fitness(individual, target, scale) ==
    similarity_to_original_melody(individual, target)
    + chord_exists(individual, scale)
    + redundant_chords(individual)

(***************************************************************************)
(* Population engine.                                                      *)
(***************************************************************************)
\* np.random.permutation(population): the population in the order perm
Permuted(pop, perm) == [k \in 1..Len(pop) |-> pop[perm[k]]]

\* The orders np.random.permutation can return for n elements
Orders(n) == {f \in [1..n -> 1..n] : \A a, b \in 1..n : a # b => f[a] # f[b]}

\* Match with >= for >: the first wins on equal fitness.
MatchTieFirst(first, second, target, scale) ==
    IF individual_fitness(first, target, scale)
           >= individual_fitness(second, target, scale)
    THEN first ELSE second

\* Match with < for >: the less fit of the two wins.
MatchLessFit(first, second, target, scale) ==
    IF individual_fitness(first, target, scale)
           < individual_fitness(second, target, scale)
    THEN first ELSE second

\* The winner of the match of contestantID and contestantID + 1
Match(first, second, target, scale) ==
    IF individual_fitness(first, target, scale)
           > individual_fitness(second, target, scale)
    THEN first ELSE second

\* tournament_bracket[contestantID + 1] is out of range at the last even
\* contestantID of a bracket of odd length.
SelectionRaises(bracket) == Len(bracket) % 2 = 1

\* tournament_winners, for a bracket of even length
selection(bracket, target, scale) ==
    [k \in 1..(Len(bracket) \div 2) |->
        Match(bracket[2 * k - 1], bracket[2 * k],
              target, scale)]

\* The value mutation leaves a gene alone with
NoMutation == <<>>

\* mutation appending the chord it draws to the individual instead of
\* assigning it to the gene.
mutation_appending(individual, draw) ==
    individual \o SelectSeq(draw, LAMBDA g : g # NoMutation)

\* mutation: draw[i] is the chord random.choice returned for gene i when
\* probability_of_mutation < 0.05 there, and NoMutation otherwise.
mutation(individual, draw) ==
    [i \in 1..Len(individual) |->
        IF draw[i] = NoMutation THEN individual[i] ELSE draw[i]]

\* new_child1 and new_child2 before mutation: coin[i] is
\* probability_of_crossover >= 0.5 at gene i.
NewChild1(parent1, parent2, coin) ==
    [i \in 1..Len(parent1) |-> IF coin[i] THEN parent1[i] ELSE parent2[i]]

\* NewChild2 appending the gene new_child1 takes.
NewChild2SameGene(parent1, parent2, coin) ==
    [i \in 1..Len(parent1) |-> IF coin[i] THEN parent1[i] ELSE parent2[i]]

NewChild2(parent1, parent2, coin) ==
    [i \in 1..Len(parent1) |-> IF coin[i] THEN parent2[i] ELSE parent1[i]]

\* parents[parent + 1] is out of range at the last even index of an odd
\* number of parents (ps).
CrossoverRaises(ps) == Len(ps) % 2 = 1

\* CrossoverPair with new_child1 built in place in the first parent, which
\* mutation then writes into.
CrossoverPairInPlace(ps, k, coin, draw1, draw2) ==
    LET parent1 == ps[2 * k - 1]
        parent2 == ps[2 * k]
        child1 == mutation(NewChild1(parent1, parent2, coin), draw1)
    IN  <<child1,
          parent2,
          child1,
          mutation(NewChild2(parent1, parent2, coin), draw2)>>

\* The four individuals the loop body appends for the pair at parent and
\* parent + 1 (k counts the pairs from 1).
CrossoverPair(ps, k, coin, draw1, draw2) ==
    LET parent1 == ps[2 * k - 1]
        parent2 == ps[2 * k]
    IN  <<parent1,
          parent2,
          mutation(NewChild1(parent1, parent2, coin), draw1),
          mutation(NewChild2(parent1, parent2, coin), draw2)>>

\* new_child1 and new_child2 of every pair, in the order they are built
NewChildren(ps, coins) ==
    [c \in 1..Len(ps) |->
        LET k == (c + 1) \div 2
        IN  IF c % 2 = 1
            THEN NewChild1(ps[2 * k - 1], ps[2 * k], coins[k])
            ELSE NewChild2(ps[2 * k - 1], ps[2 * k], coins[k])]

\* new_population, for an even number of parents ps
crossover(ps, coins, draws) ==
    [n \in 1..(2 * Len(ps)) |->
        LET k == ((n - 1) \div 4) + 1
        IN  CrossoverPair(ps, k, coins[k],
                          draws[2 * k - 1], draws[2 * k])[((n - 1) % 4) + 1]]

RECURSIVE BestScan(_, _, _, _, _)
\* The for loop of get_best_individual over population[k..], with the
\* locals mx and best_individual
BestScan(pop, target, scale, mx, best) ==
    IF pop = <<>> THEN best
    ELSE IF individual_fitness(pop[1], target, scale) > mx
         THEN BestScan(Tail(pop), target, scale,
                       individual_fitness(pop[1], target, scale), pop[1])
         ELSE BestScan(Tail(pop), target, scale, mx, best)

RECURSIVE BestScanLast(_, _, _, _, _)
\* BestScan with >= for >: a later individual of equal fitness replaces
\* the best.
BestScanLast(pop, target, scale, mx, best) ==
    IF pop = <<>> THEN best
    ELSE IF individual_fitness(pop[1], target, scale) >= mx
         THEN BestScanLast(Tail(pop), target, scale,
                           individual_fitness(pop[1], target, scale), pop[1])
         ELSE BestScanLast(Tail(pop), target, scale, mx, best)

get_best_individual_last(pop, target, scale) ==
    BestScanLast(pop, target, scale, 0, <<>>)

get_best_individual(pop, target, scale) == BestScan(pop, target, scale, 0, <<>>)

RECURSIVE TrackOf(_, _)
\* The messages the for loop of write_output appends to generated_track
\* for the chords of best, entered with the local rest_time.
TrackOf(best, rest_time) ==
    IF best = <<>> THEN <<>>
    ELSE LET x == best[1]
         IN  IF x[1] = 0
             THEN TrackOf(Tail(best), rest_time + quarter_time)
             ELSE << [type |-> "note_on",  note |-> x[1], time |-> rest_time],
                     [type |-> "note_on",  note |-> x[2], time |-> 0],
                     [type |-> "note_on",  note |-> x[3], time |-> 0],
                     [type |-> "note_off", note |-> x[1], time |-> quarter_time],
                     [type |-> "note_off", note |-> x[2], time |-> 0],
                     [type |-> "note_off", note |-> x[3], time |-> 0] >>
                  \o TrackOf(Tail(best), 0)

write_output(best) == TrackOf(best, 0)

(***************************************************************************)
(* Spec: main from create_population to write_output, for one iteration    *)
(* of its loop.  The random draws are choices.  random.choice returns a    *)
(* chord of Genes, in create_population and in mutation alike, so the      *)
(* populations over Genes are closed under selection and crossover and     *)
(* every later iteration starts from a population Init holds, up to the    *)
(* order that selection's permutation discards.  The target is a held      *)
(* note (pitch 60, 36 after the quantizer's - 24) and the key is C major.  *)
(* analyze_generation only prints and is left out.                         *)
(*                                                                         *)
(* tournament_bracket keeps the local of the selection call until the      *)
(* next call of main; parents and new_children keep the locals of the      *)
(* crossover call: the permuted input and the pairs <<new_child1,          *)
(* new_child2>> as they were before mutation.                              *)
(***************************************************************************)
Genes == {major_triad(36), rest}

Target(length) == [i \in 1..length |-> 36]

major_keys == <<
    <<"C",  <<"C", "D", "E", "F", "G", "A", "B">> >>,
    <<"C#", <<"C#", "D#", "E#", "F#", "G#", "A#", "B#">> >>,
    <<"D",  <<"D", "E", "F#", "G", "A", "B", "C#">> >>,
    <<"D#", <<"D#", "F", "G", "G#", "A#", "C", "D">> >>,
    <<"E",  <<"E", "F#", "G#", "A", "B", "C#", "D#">> >>,
    <<"F",  <<"F", "G", "A", "A#", "C", "D", "E">> >>,
    <<"F#", <<"F#", "G#", "A#", "B", "C#", "D#", "E#">> >>,
    <<"G",  <<"G", "A", "B", "C", "D", "E", "F#">> >>,
    <<"G#", <<"G#", "A#", "B#", "C#", "D#", "E#", "F#">> >>,
    <<"A",  <<"A", "B", "C#", "D", "E", "F#", "G#">> >>,
    <<"A#", <<"A#", "C", "D", "D#", "F", "G", "A">> >>,
    <<"B",  <<"B", "C#", "D#", "E", "F#", "G#", "A#">> >> >>

\* The populations create_population(size, length) can return
create_population(size, length) == [1..size -> [1..length -> Genes]]

RECURSIVE TonicCode(_)
\* The tonics of an individual read as one number; the chords of Genes
\* differ in their tonic.
TonicCode(individual) ==
    IF individual = <<>> THEN 0
    ELSE (individual[1][1] + 1) + 128 * TonicCode(Tail(individual))

\* One order of each initial population: selection permutes the population
\* before it reads it, so Init lists the individuals by rising code.
Listed(pop) ==
    \A k \in 1..(Len(pop) - 1) : TonicCode(pop[k]) <= TonicCode(pop[k + 1])

\* The draws of the mutation calls of one crossover call on the new
\* children (a sequence of individuals): draws[c][i] is the chord drawn for
\* child c at gene i, NoMutation when probability_of_mutation >= 0.05 there.
\* A draw of the chord the gene already holds leaves the child as
\* NoMutation does and is not listed apart.
MutationDraws(children) ==
    LET genes == (1..Len(children)) \X (1..Len(children[1]))
        replaced == {S \in SUBSET genes : Cardinality(S) <= MaxMutations}
        chords(S) == {g \in [S -> Genes] :
                         \A ci \in S : g[ci] # children[ci[1]][ci[2]]}
    IN  UNION {{[c \in 1..Len(children) |->
                    [i \in 1..Len(children[1]) |->
                        IF <<c, i>> \in S THEN g[<<c, i>>] ELSE NoMutation]] :
                  g \in chords(S)} : S \in replaced}

Init ==
    /\ gpc = "select"
    /\ size_of_population \in 1..MaxPop
    /\ average \in {Target(length) : length \in 1..MaxLen}
    /\ possible_chords = major_keys[1][2]
    /\ population \in create_population(size_of_population, Len(average))
    /\ Listed(population)
    /\ tournament_bracket = <<>>
    /\ selected_population = <<>>
    /\ parents = <<>>
    /\ new_children = <<>>
    /\ generation = 0
    /\ best_individual = <<>>
    /\ generated_track = <<>>
    /\ main_raised = ""
    /\ CodecIdle /\ QuantIdle /\ ScoreIdle

\* selected_population = selection(population, average, possible_chords)
Selection ==
    /\ gpc = "select"
    /\ \E perm \in Orders(Len(population)) :
        LET bracket == Permuted(population, perm)
        IN  /\ tournament_bracket' = bracket
            /\ IF SelectionRaises(bracket)
               THEN /\ gpc' = "crashed"
                    /\ main_raised' = "IndexError"
                    /\ UNCHANGED selected_population
               ELSE /\ selected_population' =
                           selection(bracket, average, possible_chords)
                    /\ gpc' = "crossover"
                    /\ UNCHANGED main_raised
    /\ UNCHANGED <<size_of_population, average, possible_chords, population,
                   parents, new_children, generation, best_individual,
                   generated_track, codecVars, quantVars, scoreVars>>

\* new_population = crossover(selected_population); population =
\* new_population; the loop of main ends
Crossover ==
    /\ gpc = "crossover"
    /\ \E perm \in Orders(Len(selected_population)) :
        LET ps == Permuted(selected_population, perm)
            pairs == Len(ps) \div 2
        IN  /\ parents' = ps
            /\ IF CrossoverRaises(ps)
               THEN /\ gpc' = "crashed"
                    /\ main_raised' = "IndexError"
                    /\ UNCHANGED <<population, new_children, generation>>
               ELSE \E coins \in [1..pairs -> [1..Len(average) -> BOOLEAN]] :
                    \E draws \in MutationDraws(NewChildren(ps, coins)) :
                    /\ population' = crossover(ps, coins, draws)
                    /\ new_children' =
                           [k \in 1..pairs |->
                               <<NewChild1(ps[2 * k - 1], ps[2 * k], coins[k]),
                                 NewChild2(ps[2 * k - 1], ps[2 * k], coins[k])>>]
                    /\ generation' = generation + 1
                    /\ gpc' = "best"
                    /\ UNCHANGED main_raised
    /\ tournament_bracket' = <<>>
    /\ UNCHANGED <<size_of_population, average, possible_chords,
                   selected_population, best_individual, generated_track,
                   codecVars, quantVars, scoreVars>>

\* best_individual = get_best_individual(population, average, possible_chords)
GetBestIndividual ==
    /\ gpc = "best"
    /\ best_individual' = get_best_individual(population, average, possible_chords)
    /\ gpc' = "write"
    /\ UNCHANGED <<size_of_population, average, possible_chords, population,
                   tournament_bracket, selected_population, parents,
                   new_children, generation, generated_track, main_raised,
                   codecVars, quantVars, scoreVars>>

\* write_output(input_mid, best_individual, output_file_name)
WriteOutput ==
    /\ gpc = "write"
    /\ generated_track' = write_output(best_individual)
    /\ gpc' = "done"
    /\ UNCHANGED <<size_of_population, average, possible_chords, population,
                   tournament_bracket, selected_population, parents,
                   new_children, generation, best_individual, main_raised,
                   codecVars, quantVars, scoreVars>>

Next == Selection \/ Crossover \/ GetBestIndividual \/ WriteOutput

Spec == Init /\ [][Next]_vars

(***************************************************************************)
(* SpecScale: get_possible_chords on the key the analysis reports, then    *)
(* chord_exists on an individual of one chord with the returned list.      *)
(* The key is the pair of the first word of str(key) and key.type: the     *)
(* analysis prints the tonic of a major key in upper case and the tonic    *)
(* of a minor key in lower case, a sharp as # and a flat as -.             *)
(***************************************************************************)
minor_keys == <<
    <<"C",  <<"C", "D", "D#", "F", "G", "G#", "A#">> >>,
    <<"C#", <<"C#", "D#", "E", "F#", "G#", "A", "B">> >>,
    <<"D",  <<"D", "E", "F", "G", "A", "A#", "C">> >>,
    <<"D#", <<"D#", "E#", "F#", "G#", "A#", "B", "C#">> >>,
    <<"E",  <<"E", "F#", "G", "A", "B", "C", "D">> >>,
    <<"F",  <<"F", "G", "G#", "A#", "C", "C#", "D#">> >>,
    <<"F#", <<"F#", "G", "A", "B", "C#", "D", "E">> >>,
    <<"G",  <<"G", "A", "A#", "C", "D", "D#", "F">> >>,
    <<"G#", <<"G#", "A#", "B", "C#", "D#", "E", "F#">> >>,
    <<"A",  <<"A", "B", "C", "D", "E", "F", "G">> >>,
    <<"A#", <<"A#", "B#", "C#", "D#", "E#", "F#", "G#">> >>,
    <<"B",  <<"B", "C#", "D", "E", "F#", "G", "A">> >> >>

\* The first words of str(key), each with its str.capitalize()
KeyWords == <<
    <<"C", "C">>,   <<"c", "C">>,   <<"C#", "C#">>, <<"c#", "C#">>,
    <<"D", "D">>,   <<"d", "D">>,   <<"D#", "D#">>, <<"d#", "D#">>,
    <<"E", "E">>,   <<"e", "E">>,   <<"F", "F">>,   <<"f", "F">>,
    <<"F#", "F#">>, <<"f#", "F#">>, <<"G", "G">>,   <<"g", "G">>,
    <<"G#", "G#">>, <<"g#", "G#">>, <<"A", "A">>,   <<"a", "A">>,
    <<"A#", "A#">>, <<"a#", "A#">>, <<"B", "B">>,   <<"b", "B">>,
    <<"E-", "E-">>, <<"e-", "E-">>, <<"B-", "B-">>, <<"b-", "B-">> >>

\* str.capitalize() of a word of KeyWords
capitalize(word) ==
    KeyWords[CHOOSE k \in 1..Len(KeyWords) : KeyWords[k][1] = word][2]

RECURSIVE KeyLookup(_, _, _)
\* for keys in table: if keys[0] == name: possible_chords = keys[1],
\* entered with the local possible_chords = found
KeyLookup(table, name, found) ==
    IF table = <<>> THEN found
    ELSE KeyLookup(Tail(table), name,
                   IF table[1][1] = name THEN table[1][2] ELSE found)

\* The list get_possible_chords returns for the key (word, type); the
\* function has no raise statement.
get_possible_chords(word, type) ==
    IF type = "minor"
    THEN KeyLookup(minor_keys, capitalize(word), <<>>)
    ELSE KeyLookup(major_keys, capitalize(word), <<>>)

\* The keys of the analysis: an upper case tonic with "major", a lower
\* case tonic with "minor"
KeyDetections ==
    {<<KeyWords[k][1], IF k % 2 = 1 THEN "major" ELSE "minor">> :
        k \in 1..Len(KeyWords)}

\* The chords that are scored: every tone is a rest's -1 or a pitch up to
\* MaxTone
ScoreChords == (-1..MaxTone) \X (-1..MaxTone) \X (-1..MaxTone)

InitScale ==
    /\ kpc = "key"
    /\ \E kd \in KeyDetections : key_word = kd[1] /\ key_type = kd[2]
    /\ kchord \in ScoreChords
    /\ root_note = "" /\ key_scale = <<>> /\ chord_score = 0
    /\ sim_target = <<0, 1>> /\ sim_diffs = <<0, 0, 0>> /\ sim_score = 0
    /\ CodecIdle /\ QuantIdle /\ MainIdle

\* possible_chords = get_possible_chords(input_file_name)
GetPossibleChords ==
    /\ kpc = "key"
    /\ root_note' = capitalize(key_word)
    /\ key_scale' = get_possible_chords(key_word, key_type)
    /\ kpc' = "scale"
    /\ UNCHANGED <<key_word, key_type, kchord, chord_score, sim_target,
                   sim_diffs, sim_score, codecVars, quantVars, mainVars>>

\* chord_exists([kchord], possible_chords)
ChordExists ==
    /\ kpc = "scale"
    /\ chord_score' = chord_exists(<<kchord>>, key_scale)
    /\ kpc' = "scored"
    /\ UNCHANGED <<key_word, key_type, root_note, key_scale, kchord,
                   sim_target, sim_diffs, sim_score, codecVars, quantVars,
                   mainVars>>

NextScale == GetPossibleChords \/ ChordExists

SpecScale == InitScale /\ [][NextScale]_vars

(***************************************************************************)
(* SpecSim: similarity_to_original_melody on an individual of one chord    *)
(* and a target of one value.  The target is a float of average_notes,     *)
(* the rational t = <<numerator, denominator>>; a difference and the       *)
(* score are kept as their numerators over the denominator of t.           *)
(***************************************************************************)
\* ToneProximity without the max: 10.0 - abs(target - tone).
ToneProximityUnclamped(t, x) == 10 * t[2] - Abs(t[1] - x * t[2])

\* max(10.0 - abs(float(target[i]) - float(tone)), 0.0) for the tone x
ToneProximity(t, x) == Max(10 * t[2] - Abs(t[1] - x * t[2]), 0)

\* <<diff1, diff2, diff3>> of one slot
SlotDiffs(chord, t) ==
    <<ToneProximity(t, chord[1]), ToneProximity(t, chord[2]),
      ToneProximity(t, chord[3])>>

\* score + diff of the one pass of the loop, entered with score = 0
SlotScore(diffs) == 0 + (diffs[2] * 10 + diffs[1] * 5 + diffs[3] * 5)

\* The target values: the rationals n / d from 0 to MaxTone
SimTargets ==
    UNION {{<<n, d>> : n \in 0..(MaxTone * d)} : d \in 1..MaxDen}

InitSim ==
    /\ kpc = "sim"
    /\ kchord \in ScoreChords
    /\ sim_target \in SimTargets
    /\ sim_diffs = <<0, 0, 0>> /\ sim_score = 0
    /\ key_word = "C" /\ key_type = "major" /\ root_note = ""
    /\ key_scale = <<>> /\ chord_score = 0
    /\ CodecIdle /\ QuantIdle /\ MainIdle

\* similarity_to_original_melody([kchord], [sim_target])
Similarity ==
    /\ kpc = "sim"
    /\ sim_diffs' = SlotDiffs(kchord, sim_target)
    /\ sim_score' = SlotScore(SlotDiffs(kchord, sim_target))
    /\ kpc' = "simdone"
    /\ UNCHANGED <<key_word, key_type, root_note, key_scale, kchord,
                   chord_score, sim_target, codecVars, quantVars, mainVars>>

NextSim == Similarity

SpecSim == InitSim /\ [][NextSim]_vars

(***************************************************************************)
(* Properties.                                                             *)
(***************************************************************************)
Fitness(individual) == individual_fitness(individual, average, possible_chords)

\* The pairs of a sequence read two by two
PairsOf(seq) == 1..(Len(seq) \div 2)

\* C1: after a generation (Select, then Recombine) the population holds as
\* many individuals as the initial population, whatever size was
\* configured, and no generation fails to complete.
C1_PopulationSizeKept ==
    /\ gpc # "crashed"
    /\ generation >= 1 => Len(population) = size_of_population

\* C2: for every pair (first, second) of consecutive elements of the
\* tournament permutation Select keeps first if fitness(first) >
\* fitness(second) and keeps second otherwise, so the strictly fitter of a
\* pair wins and the second wins on equal fitness.
C2_TournamentWinner ==
    gpc = "crossover" =>
        /\ Len(selected_population) = Len(tournament_bracket) \div 2
        /\ \A k \in PairsOf(tournament_bracket) :
            LET first == tournament_bracket[2 * k - 1]
                second == tournament_bracket[2 * k]
            IN  /\ Fitness(first) > Fitness(second)
                       => selected_population[k] = first
                /\ Fitness(first) < Fitness(second)
                       => selected_population[k] = second
                /\ Fitness(first) = Fitness(second)
                       => selected_population[k] = second

\* A bracket with a pair the first wins and a pair of different
\* individuals of equal fitness, which the second wins.
C2_Witness ==
    /\ gpc = "crossover"
    /\ \E k \in PairsOf(tournament_bracket) :
        /\ Fitness(tournament_bracket[2 * k - 1])
               > Fitness(tournament_bracket[2 * k])
        /\ selected_population[k] = tournament_bracket[2 * k - 1]
    /\ \E k \in PairsOf(tournament_bracket) :
        /\ Fitness(tournament_bracket[2 * k - 1])
               = Fitness(tournament_bracket[2 * k])
        /\ tournament_bracket[2 * k - 1] # tournament_bracket[2 * k]
        /\ selected_population[k] = tournament_bracket[2 * k]

\* C3: in Recombine both parents of every pair stand in the next
\* population with every gene as it is in the selected population;
\* building and mutating the children changes no gene of a parent.
C3_ParentsCarriedUnchanged ==
    (gpc = "best" /\ main_raised = "") =>
        /\ \E perm \in Orders(Len(selected_population)) :
               parents = Permuted(selected_population, perm)
        /\ \A k \in PairsOf(parents) :
            /\ population[4 * (k - 1) + 1] = parents[2 * k - 1]
            /\ population[4 * (k - 1) + 2] = parents[2 * k]

\* A pair of different parents one of whose children was mutated.
C3_Witness ==
    /\ gpc = "best"
    /\ Len(parents) = 2
    /\ parents[1] # parents[2]
    /\ population[3] # new_children[1][1]
    /\ population[1] = parents[1]
    /\ population[2] = parents[2]

\* C4: before mutation the two children of every pair (P1, P2) are
\* complementary at every gene index i: childA[i] = P1[i] and childB[i] =
\* P2[i], or childA[i] = P2[i] and childB[i] = P1[i], index by index.
C4_ChildrenComplementary ==
    gpc = "best" =>
        /\ Len(new_children) = Len(parents) \div 2
        /\ \A k \in PairsOf(parents) :
            LET P1 == parents[2 * k - 1]
                P2 == parents[2 * k]
                childA == new_children[k][1]
                childB == new_children[k][2]
            IN  /\ Len(childA) = Len(P1)
                /\ Len(childB) = Len(P1)
                /\ \A i \in 1..Len(P1) :
                    \/ childA[i] = P1[i] /\ childB[i] = P2[i]
                    \/ childA[i] = P2[i] /\ childB[i] = P1[i]

\* A pair whose first child takes one gene of each parent, at indices
\* where the parents differ.
C4_Witness ==
    /\ gpc = "best"
    /\ Len(parents) = 2
    /\ \E i, j \in 1..Len(parents[1]) :
        /\ parents[1][i] # parents[2][i]
        /\ parents[1][j] # parents[2][j]
        /\ new_children[1][1][i] = parents[1][i]
        /\ new_children[1][2][i] = parents[2][i]
        /\ new_children[1][1][j] = parents[2][j]
        /\ new_children[1][2][j] = parents[1][j]

\* The maximum fitness over the population
MaxFitness == CHOOSE f \in {Fitness(population[k]) : k \in 1..Len(population)} :
                  \A k \in 1..Len(population) : Fitness(population[k]) <= f

\* The first index of the population, in scan order, of maximum fitness
FirstBest == CHOOSE k \in 1..Len(population) :
                 /\ Fitness(population[k]) = MaxFitness
                 /\ \A h \in 1..(k - 1) : Fitness(population[h]) < MaxFitness

\* C5: whenever some individual of the final population has fitness > 0,
\* Result Extraction returns the first individual in scan order whose
\* fitness is the maximum over the population.
C5_BestIndividualReturned ==
    (gpc \in {"write", "done"}
        /\ \E k \in 1..Len(population) : Fitness(population[k]) > 0) =>
        /\ best_individual = population[FirstBest]
        /\ Fitness(best_individual) = MaxFitness

\* Two different individuals of maximum fitness > 0, the later one not
\* returned.
C5_Witness ==
    /\ gpc = "write"
    /\ MaxFitness > 0
    /\ \E k \in 1..Len(population) :
        /\ k > FirstBest
        /\ Fitness(population[k]) = MaxFitness
        /\ population[k] # population[FirstBest]
    /\ best_individual = population[FirstBest]

\* C6: when every individual of the final population has fitness <= 0,
\* Result Extraction surfaces EmptyBestIndividual and the run aborts
\* before output is written.
C6_EmptyBestSurfaced ==
    (gpc \in {"write", "done"}
        /\ \A k \in 1..Len(population) : Fitness(population[k]) <= 0) =>
        /\ main_raised = "EmptyBestIndividual"
        /\ gpc # "done"

\* v = n for the rational v and the whole number n
RatEquals(v, n) == v[1] = n * v[2]

\* A melody of one sounding note that lasts whole quarters
SingleNote ==
    /\ Len(original_melody) = 1
    /\ original_melody[1][1] # 0
    /\ original_melody[1][2] % quarter_time = 0

\* C7: for a melody of exactly one sounding note of pitch p and duration
\* k * quarter_time, k >= 1, the quantizer returns exactly k values, each
\* equal to p - 24.
C7_SingleNoteConserved ==
    (qpc # "idle" /\ SingleNote) =>
        /\ qpc # "crashed"
        /\ qpc = "done" =>
            /\ Len(ret) = original_melody[1][2] \div quarter_time
            /\ \A k \in 1..Len(ret) :
                   RatEquals(ret[k], original_melody[1][1] - 24)

\* One note of three quarters, quantized.
C7_Witness ==
    /\ qpc = "done"
    /\ SingleNote
    /\ original_melody[1][2] = 3 * quarter_time
    /\ Len(ret) = 3

\* C8: for every melody with at least one sounding note (positive
\* durations, gap entries allowed) get_averages is never called on a
\* buffer of total duration 0: no division by zero occurs.
C8_NoZeroTotalDuration ==
    (\E k \in 1..Len(original_melody) : original_melody[k][1] # 0) =>
        /\ quant_raised # "ZeroDivisionError"
        /\ qpc # "crashed"

\* C9: toNoteAndOctave(toPitch(n, o)) = (n, o) for every name n of the
\* chromatic list and every octave o of 0..MaxOctave.
C9_PitchRoundTrip ==
    (cpc = "decoded" /\ \E i \in 1..Len(notes) : notes[i] = note) =>
        decoded = <<note, octave>>

\* G5 = 67, decoded.
C9_Witness ==
    /\ cpc = "decoded"
    /\ note = "G"
    /\ octave = 5
    /\ midi_number = 67
    /\ decoded = <<"G", 5>>

\* C10: toPitch(name, octave) fails with InvalidNoteName whenever name is
\* not in the chromatic list, and returns no pitch for it.
C10_InvalidNoteNameRaised ==
    (cpc \in {"encoded", "decoded"} /\ \A i \in 1..Len(notes) : notes[i] # note) =>
        codec_raised = "InvalidNoteName"

\* The 12 names of the chromatic list
ChromaticNames == {notes[i] : i \in 1..Len(notes)}

\* C11: get_possible_chords returns only for a tonic among the 12
\* chromatic names; for every other tonic the call fails and returns no
\* scale, in particular not an empty one.
C11_UnknownKeyNotReturned ==
    kpc \in {"scale", "scored"} => root_note \in ChromaticNames

\* The pitch class of the note a scale degree names: its place in the
\* chromatic list, and for the two other spellings of the key tables the
\* place of the note they spell (E# is F, B# is C).
DegreePitchClass(name) ==
    IF name = "E#" THEN 5
    ELSE IF name = "B#" THEN 0
    ELSE (CHOOSE i \in 1..Len(notes) : notes[i] = name) - 1

\* The chord is, position by position, the pitch classes of the scale
\* degrees j, j + 2 mod 7 and j + 4 mod 7 for some j in 0..6.
IsScaleTriad(chord, scale) ==
    \E j \in 0..6 :
        /\ chord[1] % 12 = DegreePitchClass(scale[j + 1])
        /\ chord[2] % 12 = DegreePitchClass(scale[((j + 2) % 7) + 1])
        /\ chord[3] % 12 = DegreePitchClass(scale[((j + 4) % 7) + 1])

\* C12: against a scale of the key tables the scale-membership term of a
\* chord is +100 exactly when the chord is one of the seven triads of the
\* scale, and -100 otherwise.
C12_ScaleMembership ==
    (kpc = "scored" /\ key_scale # <<>>) =>
        chord_score = (IF IsScaleTriad(kchord, key_scale) THEN 100 ELSE -100)

\* C13: every tone's proximity score lies in [0, 10], is 0 when the tone
\* is 10 or more away from the target value and 10 when it equals the
\* target value; the slot's score is 10 * mediant + 5 * tonic + 5 *
\* dominant of these, between 0 and 200.  (The scores are numerators over
\* the denominator d of the target value.)
C13_ProximityBounded ==
    kpc = "simdone" =>
        LET n == sim_target[1]
            d == sim_target[2]
        IN  /\ \A k \in 1..3 :
                LET dist == Abs(n - kchord[k] * d)
                IN  /\ 0 <= sim_diffs[k] /\ sim_diffs[k] <= 10 * d
                    /\ dist >= 10 * d => sim_diffs[k] = 0
                    /\ dist = 0 => sim_diffs[k] = 10 * d
            /\ sim_score = 10 * sim_diffs[2] + 5 * sim_diffs[1]
                           + 5 * sim_diffs[3]
            /\ 0 <= sim_score /\ sim_score <= 200 * d
            /\ d = 1 =>
                   similarity_to_original_melody(<<kchord>>, <<n>>) = sim_score

\* A scored slot whose tonic is exactly 10 away from the target value
\* 20 / 2, whose mediant equals it and whose dominant is 1 away.
C13_Witness ==
    /\ kpc = "simdone"
    /\ sim_target = <<20, 2>>
    /\ kchord = <<0, 10, 11>>
    /\ sim_diffs = <<0, 20, 18>>
    /\ sim_score = 290

RECURSIVE SilenceEncoding(_, _)
\* The messages of the stated encoding for the chords of best after a
\* silence of the given length: a rest adds a quarter to the silence, a
\* sounding chord starts after the silence and ends a quarter later.
SilenceEncoding(best, silence) ==
    IF best = <<>> THEN <<>>
    ELSE LET x == best[1]
         IN  IF x = rest
             THEN SilenceEncoding(Tail(best), silence + quarter_time)
             ELSE << [type |-> "note_on",  note |-> x[1], time |-> silence],
                     [type |-> "note_on",  note |-> x[2], time |-> 0],
                     [type |-> "note_on",  note |-> x[3], time |-> 0],
                     [type |-> "note_off", note |-> x[1], time |-> quarter_time],
                     [type |-> "note_off", note |-> x[2], time |-> 0],
                     [type |-> "note_off", note |-> x[3], time |-> 0] >>
                  \o SilenceEncoding(Tail(best), 0)

\* C14: the track written for the best individual has no message for a
\* rest chord, whose quarter of silence is added to the onset time of the
\* next sounding chord, and has for every other chord three note_on
\* messages followed a quarter later by the three note_off messages.
C14_RestsWrittenAsSilence ==
    gpc = "done" => generated_track = SilenceEncoding(best_individual, 0)

\* An individual of as many genes as the target has values, each gene a
\* chord of three tones
WellShaped(individual) ==
    /\ DOMAIN individual = 1..Len(average)
    /\ \A i \in 1..Len(average) : DOMAIN individual[i] = 1..3

\* C15: from the initial population to the final one, every individual of
\* the population, and every parent selected from it, has exactly
\* len(target) genes and every gene is a chord of three tones.
C15_IndividualShapeKept ==
    gpc # "idle" =>
        /\ \A k \in 1..Len(population) : WellShaped(population[k])
        /\ \A k \in 1..Len(selected_population) :
               WellShaped(selected_population[k])

\* A generation is over and the population holds a child that mutation
\* changed, next to the parents, for a target of more than one value.
C15_Witness ==
    /\ gpc = "best"
    /\ generation = 1
    /\ Len(average) > 1
    /\ Len(population) = 2 * Len(selected_population)
    /\ population[3] # new_children[1][1]
    /\ WellShaped(population[3])
    /\ WellShaped(population[1])

RECURSIVE TotalTicks(_)
\* The sum of the durations of all entries of a melody, gaps included
TotalTicks(melody) ==
    IF melody = <<>> THEN 0 ELSE melody[1][2] + TotalTicks(Tail(melody))

\* C16: average_notes returns one value per quarter: as many values as
\* there are whole quarters in the total duration of the melody, gaps
\* included.
C16_OneValuePerQuarter ==
    qpc = "done" => Len(ret) = TotalTicks(original_melody) \div quarter_time

\* The maximum fitness over the individuals of pop
BestFitness(pop) ==
    CHOOSE f \in {Fitness(pop[k]) : k \in 1..Len(pop)} :
        \A k \in 1..Len(pop) : Fitness(pop[k]) <= f

\* C17: the maximum fitness over the population does not decrease over a
\* generation, whatever the pairings, the masks and the mutations are.
\* Selection leaves population as it is and crossover leaves
\* selected_population as it is, so the generation is read in two states:
\* after selection the winners hold the maximum fitness of the population
\* they were selected from, and after crossover the new population holds
\* a selected parent of the maximum fitness of the winners, and no
\* smaller maximum.
C17_MaxFitnessNeverDecreases ==
    /\ gpc = "crossover" =>
           BestFitness(selected_population) = BestFitness(population)
    /\ (gpc \in {"best", "write", "done"}) =>
           /\ BestFitness(population) >= BestFitness(selected_population)
           /\ \E k \in 1..Len(population) :
                  /\ population[k] \in
                         {selected_population[h] :
                              h \in 1..Len(selected_population)}
                  /\ Fitness(population[k]) =
                         BestFitness(selected_population)

\* A generation is over in which both children of a pair are less fit
\* than the best parent, whose fitness is the maximum of the new
\* population; the parents differ in fitness.
C17_Witness ==
    /\ gpc = "best"
    /\ generation = 1
    /\ Fitness(population[1]) # Fitness(population[2])
    /\ Fitness(population[3]) < BestFitness(selected_population)
    /\ Fitness(population[4]) < BestFitness(selected_population)
    /\ BestFitness(population) = BestFitness(selected_population)

\* C18: every name of every scale get_possible_chords returns from its
\* tables is one of the 12 names of the chromatic list, so the pitch
\* note_to_midi_number returns for the degree at octave 0 comes from a
\* match of the name and is the degree's own pitch class.
C18_TableNamesChromatic ==
    kpc \in {"scale", "scored"} =>
        \A k \in 1..Len(key_scale) :
            /\ key_scale[k] \in ChromaticNames
            /\ note_to_midi_number(key_scale[k], 0)
                   = DegreePitchClass(key_scale[k])
====
